---- MODULE Spec2Model ----
(***************************************************************************)
(* Model of src/app.py: the Eximius Coffee Production KPI dashboard.       *)
(*                                                                         *)
(* The script is re-run from top to bottom on every user interaction.      *)
(* One run (a "render pass") is modelled as the sequence of steps          *)
(*   init_connection -> ResolveDates -> SidebarFetchDistinct ->            *)
(*   SelectFilters -> ResetFilters -> FetchData -> CalculateMetrics        *)
(* and st.stop() ends the pass where it is called.                         *)
(*                                                                         *)
(* Dates are day ordinals, day 1 = 2024-01-01.  Origin fractions           *)
(* (lbs per case) are held in tenths of a pound, so 0.5 is 5, and every    *)
(* weight derived from them is in tenths of a pound as well.               *)
(* The columns shift_start, shift_end and sku_of_product are carried       *)
(* through the script without being read and are left out of the rows.     *)
(* The Lottie animation, the page title (lines 15-54) and the atexit hook  *)
(* (lines 172-181) touch none of the state below and are left out.         *)
(* daily_production changes between two passes only, never between the     *)
(* two queries of one pass.                                                *)
(***************************************************************************)
EXTENDS Integers, Sequences, FiniteSets, Bags, TLC

VARIABLES
    today,            \* date.today() of the process
    db,               \* table daily_production: a bag of rows
    engine_cache,     \* st.cache_resource entry of init_connection
    session,          \* widget state kept by the framework across passes
    pc,               \* position of the running script
    env,              \* outcome of reading the secret / creating the engine
    engine,           \* module global `engine`
    date_filter,      \* module global `date_filter`
    start_selected,   \* module global `start_selected`
    end_selected,     \* module global `end_selected`
    machine_options,  \* module global `machine_options`
    customer_options, \* module global `customer_options`
    machine_filter,   \* module global `machine_filter`
    customer_filter,  \* module global `customer_filter`
    data,             \* module global `data` (the DataFrame)
    metrics,          \* totals, efficiency and grouped frames of the pass
    screen,           \* elements the pass has put on the page
    queries,          \* SQL statements issued in the pass, in order
    call              \* a standalone call of fetch_distinct_values

vars == << today, db, engine_cache, session, pc, env, engine, date_filter,
           start_selected, end_selected, machine_options, customer_options,
           machine_filter, customer_filter, data, metrics, screen, queries,
           call >>

----------------------------------------------------------------------------
(* Bounds and input domains *)

\* largest number of rows of daily_production
MaxRows == 2

\* SQL NULL / Python None / a global that is not bound yet
NULL == "<null>"

\* table sku: id -> customer and the three origin fractions (tenths of lb)
sku ==
    [ id \in {1, 2, 3} |->
        CASE id = 1 -> [customer |-> "Acme", arabica |-> 5, robusta |-> 3, brazil |-> 1]
          [] id = 2 -> [customer |-> "Bolt", arabica |-> 4, robusta |-> 2, brazil |-> 2]
          [] id = 3 -> [customer |-> NULL,   arabica |-> 0, robusta |-> 0, brazil |-> 10] ]

\* table machine: id -> machine_name (one machine carries the empty name)
machine ==
    [ id \in {1, 2, 3} |->
        CASE id = 1 -> [machine_name |-> "M1"]
          [] id = 2 -> [machine_name |-> ""]
          [] id = 3 -> [machine_name |-> "M2"] ]

\* every name of the two tables, in Python's ascending string order
NameOrder == << "", "Acme", "Bolt", "M1", "M2" >>

\* the days the process may run on: 2025-01-05 and 2025-03-01
Todays == {371, 426}

\* rows that may be inserted into daily_production:
\* << days before today, sku_id, machine_id, schedulded_cases, produced_cases >>
SampleRows ==
    { << 0,   1, 1, 100, 100 >>,
      << 0,   2, 1, 50,  50  >>,
      << 0,   1, 2, 0,   500 >>,
      << 4,   3, 1, 100, 50  >>,
      << 7,   2, 3, 100, 0   >>,
      << 8,   1, 3, 50,  50  >>,
      << 30,  3, 2, 0,   0   >>,
      << 31,  2, 1, 100, 100 >>,
      << 365, 1, 1, 50,  100 >> }

ProductionRow(t, s) ==
    [ date |-> t - s[1], sku_id |-> s[2], machine_id |-> s[3],
      schedulded_cases |-> s[4], produced_cases |-> s[5] ]

----------------------------------------------------------------------------
(* datetime.date arithmetic *)

MonthLengths(leap) ==
    << 31, IF leap THEN 29 ELSE 28, 31, 30, 31, 30, 31, 31, 30, 31, 30, 31 >>

RECURSIVE DayInMonths(_, _, _)
DayInMonths(n, lengths, m) ==
    IF n <= lengths[m] THEN n ELSE DayInMonths(n - lengths[m], lengths, m + 1)

\* date.day of an ordinal of 2024 (leap, days 1..366) or 2025 (days 367..731)
DayOfMonth(d) ==
    IF d <= 366 THEN DayInMonths(d, MonthLengths(TRUE), 1)
                ELSE DayInMonths(d - 366, MonthLengths(FALSE), 1)

\* date.replace(day=1)
ReplaceDay1(d) == d - (DayOfMonth(d) - 1)

----------------------------------------------------------------------------
(* Ordering helpers *)

NameRank(n) == CHOOSE i \in 1..Len(NameOrder) : NameOrder[i] = n

\* sorted(values) for a set of names
Sorted(S) == SelectSeq(NameOrder, LAMBDA n : n \in S)

Range(s) == { s[i] : i \in 1..Len(s) }

\* ORDER BY dp.date, machine.machine_name
OrderKeyLeq(r, s) ==
    \/ r.date < s.date
    \/ /\ r.date = s.date
       /\ NameRank(machine[r.machine_id].machine_name)
            <= NameRank(machine[s.machine_id].machine_name)

RECURSIVE OrderBy(_)
OrderBy(bag) ==
    IF BagToSet(bag) = {} THEN << >>
    ELSE LET first == CHOOSE r \in BagToSet(bag) :
                        \A s \in BagToSet(bag) : OrderKeyLeq(r, s)
         IN  << first >> \o OrderBy(bag (-) SetToBag({first}))

----------------------------------------------------------------------------
(* The schema accessor *)

\* WHERE dp.date BETWEEN %(start_date)s AND %(end_date)s
Between(d, lo, hi) == lo <= d /\ d <= hi

\* Python truthiness of an optional string
Truthy(x) == x # NULL /\ x # ""

\* one row of the three-table join, with the columns the SELECT lists
JoinRow(r) ==
    [ date             |-> r.date,
      schedulded_cases |-> r.schedulded_cases,
      produced_cases   |-> r.produced_cases,
      customer         |-> sku[r.sku_id].customer,
      arabica          |-> sku[r.sku_id].arabica,
      robusta          |-> sku[r.sku_id].robusta,
      brazil           |-> sku[r.sku_id].brazil,
      machine_name     |-> machine[r.machine_id].machine_name ]

\* the statement fetch_distinct_values sends, with the parameters bound to it
DistinctQuery(db_ok) ==
    [ name |-> "distinct_values", start_date |-> start_selected,
      end_date |-> end_selected, machine |-> NULL, customer |-> NULL,
      ok |-> db_ok ]

\* fetch_distinct_values: the query reads the globals start_selected and
\* end_selected (params= of read_sql_query), not the two parameters.
fetch_distinct_values(start_date, end_date, db_ok) ==
    IF db_ok
    THEN LET df == { JoinRow(r) : r \in
                       { x \in BagToSet(db) :
                           Between(x.date, start_selected, end_selected) } }
             machine_names == Sorted({ r.machine_name : r \in df } \ {NULL})
             customers     == Sorted({ r.customer : r \in df } \ {NULL})
         IN  [ stopped |-> FALSE, query |-> DistinctQuery(TRUE),
               machine_names |-> machine_names, customers |-> customers ]
    ELSE [ stopped |-> TRUE, query |-> DistinctQuery(FALSE),
           error |-> "error_distinct_values" ]

\* fetch_production_data
fetch_production_data(start_date, end_date, machine_arg, customer_arg, db_ok) ==
    LET by_machine  == Truthy(machine_arg) /\ machine_arg # "All"
        by_customer == Truthy(customer_arg) /\ customer_arg # "All"
        Where(r) ==
            /\ Between(r.date, start_date, end_date)
            /\ by_machine => machine[r.machine_id].machine_name = machine_arg
            /\ by_customer => sku[r.sku_id].customer = customer_arg
        selected == [ r \in { x \in BagToSet(db) : Where(x) } |-> db[r] ]
        rows == OrderBy(selected)
        query == [ name |-> "production_data", start_date |-> start_date,
                   end_date |-> end_date,
                   machine |-> IF by_machine THEN machine_arg ELSE NULL,
                   customer |-> IF by_customer THEN customer_arg ELSE NULL,
                   ok |-> db_ok ]
    IN  IF db_ok
        THEN [ stopped |-> FALSE, query |-> query,
               df |-> [ i \in 1..Len(rows) |-> JoinRow(rows[i]) ] ]
        ELSE [ stopped |-> TRUE, query |-> query,
               error |-> "error_production_data" ]

----------------------------------------------------------------------------
(* The metric deriver *)

RECURSIVE SumCol(_, _)
\* df[col].sum()
SumCol(df, col) ==
    IF df = << >> THEN 0 ELSE Head(df)[col] + SumCol(Tail(df), col)

\* WithCoffeeUsage with the Brazil weight taken from the robusta fraction
WithCoffeeUsageSwapped(df) ==
    [ i \in 1..Len(df) |->
        df[i] @@ [ total_arabica |-> df[i].produced_cases * df[i].arabica,
                   total_robusta |-> df[i].produced_cases * df[i].robusta,
                   total_brazil  |-> df[i].produced_cases * df[i].robusta ] ]

\* data["total_x"] = data["produced_cases"] * data["x"]
WithCoffeeUsage(df) ==
    [ i \in 1..Len(df) |->
        df[i] @@ [ total_arabica |-> df[i].produced_cases * df[i].arabica,
                   total_robusta |-> df[i].produced_cases * df[i].robusta,
                   total_brazil  |-> df[i].produced_cases * df[i].brazil ] ]

\* pd.isna of a cell: only the two name columns can hold a missing value
\* (dp.date passed BETWEEN, the numeric columns are counts and fractions)
IsNa(row, key) == key \in { "customer", "machine_name" } /\ row[key] = NULL

\* the keys df.groupby(key) forms: rows whose key is missing are dropped
GroupKeys(df, key) ==
    { df[i][key] : i \in { j \in 1..Len(df) : ~IsNa(df[j], key) } }

\* df.groupby(key)[col].sum()
GroupBySum(df, key, col) ==
    [ k \in GroupKeys(df, key) |->
        SumCol(SelectSeq(df, LAMBDA r : r[key] = k), col) ]

\* ProductionEfficiency without the guard on total_scheduled
ProductionEfficiencyUnguarded(total_produced, total_scheduled) ==
    [ num |-> total_produced * 100, den |-> total_scheduled ]

\* (total_produced / total_scheduled) * 100 if total_scheduled > 0 else 0,
\* kept as the exact fraction num / den
ProductionEfficiency(total_produced, total_scheduled) ==
    IF total_scheduled > 0
    THEN [ num |-> total_produced * 100, den |-> total_scheduled ]
    ELSE [ num |-> 0, den |-> 1 ]

\* the value of `metrics` in a pass that has not derived any
NoMetrics == [ computed |-> FALSE ]

\* lines 242-307: totals, efficiency and the four grouped frames
DeriveMetrics(df) ==
    LET total_arabica == SumCol(df, "total_arabica")
        total_robusta == SumCol(df, "total_robusta")
        total_brazil  == SumCol(df, "total_brazil")
    IN  [ computed        |-> TRUE,
          total_produced  |-> SumCol(df, "produced_cases"),
          total_scheduled |-> SumCol(df, "schedulded_cases"),
          total_arabica   |-> total_arabica,
          total_robusta   |-> total_robusta,
          total_brazil    |-> total_brazil,
          total_coffee    |-> total_arabica + total_robusta + total_brazil,
          production_efficiency |->
              ProductionEfficiency(SumCol(df, "produced_cases"),
                                   SumCol(df, "schedulded_cases")),
          machines_involved |-> Cardinality(GroupKeys(df, "machine_name")),
          produced_by_date  |-> GroupBySum(df, "date", "produced_cases"),
          scheduled_by_date |-> GroupBySum(df, "date", "schedulded_cases"),
          arabica_by_date   |-> GroupBySum(df, "date", "total_arabica"),
          robusta_by_date   |-> GroupBySum(df, "date", "total_robusta"),
          brazil_by_date    |-> GroupBySum(df, "date", "total_brazil"),
          machine_util      |-> GroupBySum(df, "machine_name", "produced_cases"),
          customer_summary  |-> GroupBySum(df, "customer", "produced_cases") ]

----------------------------------------------------------------------------
(* The script, step by step *)

\* the value of `call` while no standalone call has been made
NoCall == [ made |-> FALSE ]

\* the values the sidebar widgets hold on a first load of the page
DefaultSession(t) ==
    [ date_filter |-> "Last 7 Days", selected_dates |-> << t - 30, t >>,
      machine |-> "All", customer |-> "All", reset |-> FALSE ]

DateFilterOptions == { "Last 7 Days", "Last 30 Days", "This Month", "Custom Range" }

\* the dates offered to the user of st.date_input: min_value and max_value
CustomDates(t) == { t - 365, t }

\* what st.date_input can return in range mode: nothing, one end, or an
\* ordered pair inside [min_value, max_value]
CustomSelections(t) ==
    {<< >>} \cup { << d >> : d \in CustomDates(t) }
            \cup { p \in CustomDates(t) \X CustomDates(t) : p[1] <= p[2] }

\* st.selectbox(label, options): the stored choice when it is one of the
\* options, else the first option
selectbox(choice, options) ==
    IF choice \in Range(options) THEN choice ELSE options[1]

Init ==
    /\ today \in Todays
    /\ db = EmptyBag
    /\ engine_cache = NULL
    /\ session = DefaultSession(today)
    /\ pc = "init_connection"
    /\ env = NULL
    /\ engine = NULL
    /\ date_filter = NULL
    /\ start_selected = NULL
    /\ end_selected = NULL
    /\ machine_options = NULL
    /\ customer_options = NULL
    /\ machine_filter = NULL
    /\ customer_filter = NULL
    /\ data = NULL
    /\ metrics = NoMetrics
    /\ screen = {}
    /\ queries = << >>
    /\ call = NoCall

\* init_connection whose except branches report the error and return
init_connection_without_stop ==
    /\ pc = "init_connection"
    /\ IF engine_cache # NULL
       THEN /\ engine' = engine_cache
            /\ env' = "cached"
            /\ UNCHANGED << engine_cache, screen >>
       ELSE \E outcome \in { "ok", "missing_secret", "engine_error" } :
              /\ env' = outcome
              /\ IF outcome = "ok"
                 THEN /\ engine' = "engine"
                      /\ engine_cache' = "engine"
                      /\ UNCHANGED screen
                 ELSE /\ screen' = screen \cup { "error_" \o outcome }
                      /\ UNCHANGED << engine, engine_cache >>
    /\ pc' = "resolve_dates"
    /\ UNCHANGED << today, db, session, date_filter, start_selected,
                    end_selected, machine_options, customer_options,
                    machine_filter, customer_filter, data, metrics, queries,
                    call >>

\* lines 57-80: engine = init_connection(), memoised by st.cache_resource
init_connection ==
    /\ pc = "init_connection"
    /\ IF engine_cache # NULL
       THEN /\ engine' = engine_cache
            /\ env' = "cached"
            /\ pc' = "resolve_dates"
            /\ UNCHANGED << engine_cache, screen >>
       ELSE \E outcome \in { "ok", "missing_secret", "engine_error" } :
              /\ env' = outcome
              /\ IF outcome = "ok"
                 THEN /\ engine' = "engine"
                      /\ engine_cache' = "engine"
                      /\ pc' = "resolve_dates"
                      /\ UNCHANGED screen
                 ELSE /\ screen' = screen \cup { "error_" \o outcome }
                      /\ pc' = "stopped"
                      /\ UNCHANGED << engine, engine_cache >>
    /\ UNCHANGED << today, db, session, date_filter, start_selected,
                    end_selected, machine_options, customer_options,
                    machine_filter, customer_filter, data, metrics, queries,
                    call >>

\* DateRange with "This Month" taken as the 30 days before today
DateRangeMonthAsThirtyDays(choice, selected_dates, t) ==
    CASE choice = "Last 7 Days"  -> << t - 7, t >>
      [] choice = "Last 30 Days" -> << t - 30, t >>
      [] choice = "This Month"   -> << t - 30, t >>
      [] OTHER -> IF Len(selected_dates) = 2
                  THEN << selected_dates[1], selected_dates[2] >>
                  ELSE << t - 30, t >>

\* lines 195-215: the range a date_filter choice stands for
DateRange(choice, selected_dates, t) ==
    CASE choice = "Last 7 Days"  -> << t - 7, t >>
      [] choice = "Last 30 Days" -> << t - 30, t >>
      [] choice = "This Month"   -> << ReplaceDay1(t), t >>
      [] OTHER -> IF Len(selected_dates) = 2
                  THEN << selected_dates[1], selected_dates[2] >>
                  ELSE << t - 30, t >>

\* lines 188-215
ResolveDates ==
    /\ pc = "resolve_dates"
    /\ date_filter' = session.date_filter
    /\ LET range == DateRange(session.date_filter, session.selected_dates, today)
       IN  /\ start_selected' = range[1]
           /\ end_selected' = range[2]
    /\ screen' = screen \cup { "date_filter" }
                   \cup IF session.date_filter = "Custom Range"
                        THEN { "date_input" } ELSE {}
    /\ pc' = "fetch_distinct"
    /\ UNCHANGED << today, db, engine_cache, session, env, engine,
                    machine_options, customer_options, machine_filter,
                    customer_filter, data, metrics, queries, call >>

\* line 218
SidebarFetchDistinct ==
    /\ pc = "fetch_distinct"
    /\ \E db_ok \in BOOLEAN :
         LET r == fetch_distinct_values(start_selected, end_selected, db_ok)
         IN  /\ queries' = Append(queries, r.query)
             /\ IF r.stopped
                THEN /\ screen' = screen \cup { r.error }
                     /\ pc' = "stopped"
                     /\ UNCHANGED << machine_options, customer_options >>
                ELSE /\ machine_options' = r.machine_names
                     /\ customer_options' = r.customers
                     /\ pc' = "select_filters"
                     /\ UNCHANGED screen
    /\ UNCHANGED << today, db, engine_cache, session, env, engine, date_filter,
                    start_selected, end_selected, machine_filter,
                    customer_filter, data, metrics, call >>

\* lines 221-222
SelectFilters ==
    /\ pc = "select_filters"
    /\ machine_filter' = selectbox(session.machine, << "All" >> \o machine_options)
    /\ customer_filter' = selectbox(session.customer, << "All" >> \o customer_options)
    /\ screen' = screen \cup { "machine_filter", "customer_filter" }
    /\ pc' = "reset_filters"
    /\ UNCHANGED << today, db, engine_cache, session, env, engine, date_filter,
                    start_selected, end_selected, machine_options,
                    customer_options, data, metrics, queries, call >>

\* ResetFilters that resets the date range and leaves the two name filters
ResetFiltersDatesOnly ==
    /\ pc = "reset_filters"
    /\ IF session.reset
       THEN /\ date_filter' = "Last 30 Days"
            /\ start_selected' = today - 30
            /\ end_selected' = today
            /\ UNCHANGED << machine_filter, customer_filter >>
       ELSE UNCHANGED << date_filter, start_selected, end_selected,
                         machine_filter, customer_filter >>
    /\ screen' = screen \cup { "reset_button" }
    /\ pc' = "fetch_data"
    /\ UNCHANGED << today, db, engine_cache, session, env, engine,
                    machine_options, customer_options, data, metrics, queries,
                    call >>

\* lines 225-230
ResetFilters ==
    /\ pc = "reset_filters"
    /\ IF session.reset
       THEN /\ date_filter' = "Last 30 Days"
            /\ start_selected' = today - 30
            /\ end_selected' = today
            /\ machine_filter' = "All"
            /\ customer_filter' = "All"
       ELSE UNCHANGED << date_filter, start_selected, end_selected,
                         machine_filter, customer_filter >>
    /\ screen' = screen \cup { "reset_button" }
    /\ pc' = "fetch_data"
    /\ UNCHANGED << today, db, engine_cache, session, env, engine,
                    machine_options, customer_options, data, metrics, queries,
                    call >>

\* FetchData whose failure is reported and answered with an empty frame
FetchDataWithoutStop ==
    /\ pc = "fetch_data"
    /\ \E db_ok \in BOOLEAN :
         LET r == fetch_production_data(start_selected, end_selected,
                                        machine_filter, customer_filter, db_ok)
         IN  /\ queries' = Append(queries, r.query)
             /\ IF r.stopped
                THEN /\ screen' = screen \cup { r.error }
                     /\ data' = << >>
                ELSE /\ data' = r.df
                     /\ UNCHANGED screen
    /\ pc' = "calculate_metrics"
    /\ UNCHANGED << today, db, engine_cache, session, env, engine, date_filter,
                    start_selected, end_selected, machine_options,
                    customer_options, machine_filter, customer_filter, metrics,
                    call >>

\* lines 233-238
FetchData ==
    /\ pc = "fetch_data"
    /\ \E db_ok \in BOOLEAN :
         LET r == fetch_production_data(start_selected, end_selected,
                                        machine_filter, customer_filter, db_ok)
         IN  /\ queries' = Append(queries, r.query)
             /\ IF r.stopped
                THEN /\ screen' = screen \cup { r.error }
                     /\ pc' = "stopped"
                     /\ UNCHANGED data
                ELSE /\ data' = r.df
                     /\ pc' = "calculate_metrics"
                     /\ UNCHANGED screen
    /\ UNCHANGED << today, db, engine_cache, session, env, engine, date_filter,
                    start_selected, end_selected, machine_options,
                    customer_options, machine_filter, customer_filter, metrics,
                    call >>

\* CalculateMetrics without the test on data.empty
CalculateMetricsUnguarded ==
    /\ pc = "calculate_metrics"
    /\ data' = WithCoffeeUsage(data)
    /\ metrics' = DeriveMetrics(WithCoffeeUsage(data))
    /\ screen' = screen \cup { "kpis", "charts", "csv", "raw_data" }
    /\ pc' = "done"
    /\ UNCHANGED << today, db, engine_cache, session, env, engine, date_filter,
                    start_selected, end_selected, machine_options,
                    customer_options, machine_filter, customer_filter, queries,
                    call >>

\* lines 241-338
CalculateMetrics ==
    /\ pc = "calculate_metrics"
    /\ IF data # << >>
       THEN /\ data' = WithCoffeeUsage(data)
            /\ metrics' = DeriveMetrics(WithCoffeeUsage(data))
            /\ screen' = screen \cup { "kpis", "charts", "csv", "raw_data" }
       ELSE /\ screen' = screen \cup { "warning_no_data" }
            /\ UNCHANGED << data, metrics >>
    /\ pc' = "done"
    /\ UNCHANGED << today, db, engine_cache, session, env, engine, date_filter,
                    start_selected, end_selected, machine_options,
                    customer_options, machine_filter, customer_filter, queries,
                    call >>

----------------------------------------------------------------------------
(* The environment: the user and the database *)

PassOver == pc \in { "done", "stopped" }

\* the framework starts the script again with fresh module globals
StartPass(next_session) ==
    /\ session' = next_session
    /\ pc' = "init_connection"
    /\ env' = NULL
    /\ engine' = NULL
    /\ date_filter' = NULL
    /\ start_selected' = NULL
    /\ end_selected' = NULL
    /\ machine_options' = NULL
    /\ customer_options' = NULL
    /\ machine_filter' = NULL
    /\ customer_filter' = NULL
    /\ data' = NULL
    /\ metrics' = NoMetrics
    /\ screen' = {}
    /\ queries' = << >>
    /\ call' = NoCall
    /\ UNCHANGED << today, db, engine_cache >>

\* the user asks for a rerun without touching a widget
Rerun ==
    /\ PassOver
    /\ StartPass([ session EXCEPT !.reset = FALSE ])

\* the user picks another entry of the date range selectbox
ChooseDateFilter ==
    /\ PassOver
    /\ "date_filter" \in screen
    /\ \E choice \in DateFilterOptions \ { session.date_filter } :
         StartPass([ session EXCEPT !.date_filter = choice, !.reset = FALSE ])

\* the user edits the custom date range
ChooseCustomDates ==
    /\ PassOver
    /\ "date_input" \in screen
    /\ \E sel \in CustomSelections(today) \ { session.selected_dates } :
         StartPass([ session EXCEPT !.selected_dates = sel, !.reset = FALSE ])

\* the user picks a machine among the options on the page
ChooseMachine ==
    /\ PassOver
    /\ "machine_filter" \in screen
    /\ \E choice \in Range(<< "All" >> \o machine_options)
                      \ { selectbox(session.machine, << "All" >> \o machine_options) } :
         StartPass([ session EXCEPT !.machine = choice, !.reset = FALSE ])

\* the user picks a customer among the options on the page
ChooseCustomer ==
    /\ PassOver
    /\ "customer_filter" \in screen
    /\ \E choice \in Range(<< "All" >> \o customer_options)
                      \ { selectbox(session.customer, << "All" >> \o customer_options) } :
         StartPass([ session EXCEPT !.customer = choice, !.reset = FALSE ])

\* the user presses Reset Filters: st.button is True in the pass it starts
PressReset ==
    /\ PassOver
    /\ "reset_button" \in screen
    /\ StartPass([ session EXCEPT !.reset = TRUE ])

\* another writer adds a row to daily_production between two passes
InsertProduction ==
    /\ PassOver
    /\ BagCardinality(db) < MaxRows
    /\ \E s \in SampleRows : db' = db (+) SetToBag({ ProductionRow(today, s) })
    /\ UNCHANGED << today, engine_cache, session, pc, env, engine, date_filter,
                    start_selected, end_selected, machine_options,
                    customer_options, machine_filter, customer_filter, data,
                    metrics, screen, queries, call >>

\* a caller invokes fetch_distinct_values with a range of its own while the
\* globals of a finished pass are bound
CallFetchDistinct ==
    /\ pc = "done"
    /\ ~call.made
    /\ \E start_date \in { today - 30, today }, end_date \in { today - 30, today },
          db_ok \in BOOLEAN :
         call' = [ made |-> TRUE, start_date |-> start_date,
                   end_date |-> end_date, table |-> db,
                   returned |-> fetch_distinct_values(start_date, end_date, db_ok) ]
    /\ UNCHANGED << today, db, engine_cache, session, pc, env, engine,
                    date_filter, start_selected, end_selected, machine_options,
                    customer_options, machine_filter, customer_filter, data,
                    metrics, screen, queries >>

Next ==
    \/ init_connection
    \/ ResolveDates
    \/ SidebarFetchDistinct
    \/ SelectFilters
    \/ ResetFilters
    \/ FetchData
    \/ CalculateMetrics
    \/ Rerun
    \/ ChooseDateFilter
    \/ ChooseCustomDates
    \/ ChooseMachine
    \/ ChooseCustomer
    \/ PressReset
    \/ InsertProduction

Spec == Init /\ [][Next]_vars

\* the script together with standalone calls of fetch_distinct_values
NextCall == Next \/ CallFetchDistinct

SpecCall == Init /\ [][NextCall]_vars

----------------------------------------------------------------------------
(* Vocabulary of the properties *)

\* what a pass shows only when it has derived metrics
Results == { "kpis", "charts", "csv", "raw_data" }

RECURSIVE SumOfRows(_, _)
\* the sum of the first n entries of a sequence of numbers
SumOfRows(values, n) ==
    IF n = 0 THEN 0 ELSE values[n] + SumOfRows(values, n - 1)

\* the sum over the rows of df of column a, or of the product of a and b
SumOfColumn(df, a) == SumOfRows([ i \in 1..Len(df) |-> df[i][a] ], Len(df))

SumOfProduct(df, a, b) ==
    SumOfRows([ i \in 1..Len(df) |-> df[i][a] * df[i][b] ], Len(df))

RECURSIVE SumOfGroups(_, _)
\* the sum of a grouped frame over the keys in `keys`
SumOfGroups(frame, keys) ==
    IF keys = {} THEN 0
    ELSE LET k == CHOOSE x \in keys : TRUE
         IN  frame[k] + SumOfGroups(frame, keys \ {k})

\* the values of a column that occur in df, a missing value included
KeysPresent(df, key) == { df[i][key] : i \in 1..Len(df) }

\* a grouped frame has one group per key of df and its groups add up to total
Decomposes(frame, df, key, total) ==
    /\ DOMAIN frame = KeysPresent(df, key)
    /\ SumOfGroups(frame, DOMAIN frame) = total

\* the rows of daily_production dated within [lo, hi], joined
JoinedBetween(table, lo, hi) ==
    { JoinRow(r) : r \in { x \in BagToSet(table) : lo <= x.date /\ x.date <= hi } }

\* a sequence of names in strictly ascending order
Ascending(names) ==
    \A i \in 1..Len(names) : \A j \in 1..Len(names) :
        i < j => NameRank(names[i]) < NameRank(names[j])

\* how often a joined row occurs in a frame
Occurrences(df, row) == Cardinality({ i \in 1..Len(df) : df[i] = row })

\* how often a joined row occurs in the table
Stored(table, row) ==
    LET matching == { r \in BagToSet(table) : JoinRow(r) = row }
    IN  SumOfGroups(table, matching)

----------------------------------------------------------------------------
(* C1 *)

\* C1: when the query of fetch_distinct_values or of fetch_production_data
\* fails, the pass shows the error and is halted there: the failed query is
\* the last one of the pass (no retry, no later query) and no metric, chart,
\* table or CSV export has been produced, nor is any data held.
QueryFailureHaltsPass ==
    \A i \in 1..Len(queries) :
        ~queries[i].ok =>
            /\ i = Len(queries)
            /\ pc = "stopped"
            /\ ("error_" \o queries[i].name) \in screen
            /\ metrics = NoMetrics
            /\ data = NULL
            /\ screen \cap (Results \cup { "warning_no_data" }) = {}

\* a pass whose production query failed after the distinct-value query succeeded
QueryFailureReached ==
    /\ Len(queries) = 2
    /\ queries[1].ok
    /\ ~queries[2].ok
    /\ queries[2].name = "production_data"
    /\ pc = "stopped"

----------------------------------------------------------------------------
(* C2 *)

\* C2: right after fetch_production_data(start, end, machine, customer)
\* returns, a machine other than "All" leaves only rows of that machine, a
\* customer other than "All" leaves only rows of that customer, and every row
\* of the date range that satisfies the filters given is in the result as
\* often as it is stored.
FiltersRestrictResult ==
    pc = "calculate_metrics" =>
        /\ machine_filter # "All" =>
             \A i \in 1..Len(data) : data[i].machine_name = machine_filter
        /\ customer_filter # "All" =>
             \A i \in 1..Len(data) : data[i].customer = customer_filter
        /\ \A row \in JoinedBetween(db, start_selected, end_selected) :
             ( /\ machine_filter = "All" \/ row.machine_name = machine_filter
               /\ customer_filter = "All" \/ row.customer = customer_filter )
               => Occurrences(data, row) = Stored(db, row)

----------------------------------------------------------------------------
(* C3 *)

\* C3: a finished pass whose record set is empty has derived no metric, shows
\* no KPI, chart, table or CSV export and shows the "no data" notice; a
\* finished pass whose record set is not empty does not show the notice.
EmptyResultShowsNoticeOnly ==
    pc = "done" =>
        IF data = << >>
        THEN /\ metrics = NoMetrics
             /\ screen \cap Results = {}
             /\ "warning_no_data" \in screen
        ELSE /\ metrics.computed
             /\ Results \subseteq screen
             /\ "warning_no_data" \notin screen

\* a finished pass that found no record although the table holds some
EmptyResultReached ==
    /\ pc = "done"
    /\ data = << >>
    /\ db # EmptyBag
    /\ "warning_no_data" \in screen

----------------------------------------------------------------------------
(* C4 *)

\* C4: whenever metrics are derived, each grouped frame has one group for
\* every key value of the record set, a missing customer included, and no
\* other, and its groups add up to the total over the whole record set.
GroupedSumsDecompose ==
    metrics.computed =>
        /\ Decomposes(metrics.produced_by_date, data, "date", metrics.total_produced)
        /\ Decomposes(metrics.scheduled_by_date, data, "date", metrics.total_scheduled)
        /\ Decomposes(metrics.arabica_by_date, data, "date", metrics.total_arabica)
        /\ Decomposes(metrics.robusta_by_date, data, "date", metrics.total_robusta)
        /\ Decomposes(metrics.brazil_by_date, data, "date", metrics.total_brazil)
        /\ Decomposes(metrics.machine_util, data, "machine_name", metrics.total_produced)
        /\ Decomposes(metrics.customer_summary, data, "customer", metrics.total_produced)

----------------------------------------------------------------------------
(* C5 *)

\* C5: whenever metrics are derived, production_efficiency is
\* total_produced / total_scheduled * 100 when total_scheduled > 0 and is 0
\* when total_scheduled is 0; it is never a division by zero.
EfficiencyGuarded ==
    metrics.computed =>
        LET e == metrics.production_efficiency
            produced  == SumOfColumn(data, "produced_cases")
            scheduled == SumOfColumn(data, "schedulded_cases")
        IN  /\ e.den # 0
            /\ scheduled > 0 => e.num * scheduled = produced * 100 * e.den
            /\ scheduled = 0 => e.num = 0

\* 500 cases produced against none scheduled
ZeroScheduledReached ==
    /\ metrics.computed
    /\ metrics.total_scheduled = 0
    /\ metrics.total_produced = 500
    /\ metrics.production_efficiency.num = 0

----------------------------------------------------------------------------
(* C6 *)

\* C6: whenever metrics are derived, each record's three origin weights are
\* produced_cases times its fractions, each origin total is the sum of that
\* weight over the records, and total_coffee is the sum of the three totals.
CoffeeUsageTotals ==
    metrics.computed =>
        /\ \A i \in 1..Len(data) :
             /\ data[i].total_arabica = data[i].produced_cases * data[i].arabica
             /\ data[i].total_robusta = data[i].produced_cases * data[i].robusta
             /\ data[i].total_brazil = data[i].produced_cases * data[i].brazil
        /\ metrics.total_arabica =
             SumOfProduct(data, "produced_cases", "arabica")
        /\ metrics.total_robusta =
             SumOfProduct(data, "produced_cases", "robusta")
        /\ metrics.total_brazil =
             SumOfProduct(data, "produced_cases", "brazil")
        /\ metrics.total_coffee =
             metrics.total_arabica + metrics.total_robusta + metrics.total_brazil

\* the records (100, 0.5, 0.3, 0.1) and (50, 0.4, 0.2, 0.2) give 70, 40, 20
\* and 130 lbs (700, 400, 200 and 1300 tenths)
CoffeeExampleReached ==
    /\ metrics.computed
    /\ Len(data) = 2
    /\ \E i \in 1..2 :
         /\ data[i].produced_cases = 100 /\ data[i].arabica = 5
         /\ data[i].robusta = 3 /\ data[i].brazil = 1
         /\ data[3 - i].produced_cases = 50 /\ data[3 - i].arabica = 4
         /\ data[3 - i].robusta = 2 /\ data[3 - i].brazil = 2
    /\ metrics.total_arabica = 700
    /\ metrics.total_robusta = 400
    /\ metrics.total_brazil = 200
    /\ metrics.total_coffee = 1300

----------------------------------------------------------------------------
(* C7 *)

\* C7: the range the sidebar resolves depends on today and the selection
\* alone: "Last 7 Days" is [today - 7, today], "Last 30 Days" is
\* [today - 30, today], "This Month" runs from the first day of today's month
\* to today, "Custom Range" is the pair picked, inside [today - 365, today],
\* or [today - 30, today] when no complete pair is picked; start <= end.
DateRangeResolved ==
    pc = "fetch_distinct" =>
        /\ start_selected <= end_selected
        /\ session.date_filter = "Last 7 Days" =>
             start_selected = today - 7 /\ end_selected = today
        /\ session.date_filter = "Last 30 Days" =>
             start_selected = today - 30 /\ end_selected = today
        /\ session.date_filter = "This Month" =>
             /\ end_selected = today
             /\ DayOfMonth(start_selected) = 1
             /\ \A d \in (start_selected + 1)..today : DayOfMonth(d) # 1
        /\ session.date_filter = "Custom Range" =>
             IF Len(session.selected_dates) = 2
             THEN /\ start_selected = session.selected_dates[1]
                  /\ end_selected = session.selected_dates[2]
                  /\ today - 365 <= start_selected
                  /\ end_selected <= today
             ELSE start_selected = today - 30 /\ end_selected = today

\* a custom range with one end picked falls back to the last 30 days
CustomFallbackReached ==
    /\ pc = "fetch_distinct"
    /\ session.date_filter = "Custom Range"
    /\ Len(session.selected_dates) = 1
    /\ start_selected = today - 30

----------------------------------------------------------------------------
(* C8 *)

\* C8: a call fetch_distinct_values(start_date, end_date) that returns gives
\* the machine names and the customers, each without missing values and in
\* ascending order, of exactly the records dated within
\* [start_date, end_date]; an inverted range gives two empty lists.
DistinctValuesFollowArguments ==
    (call.made /\ ~call.returned.stopped) =>
        LET rows == JoinedBetween(call.table, call.start_date, call.end_date)
        IN  /\ Range(call.returned.machine_names) =
                 { r.machine_name : r \in rows } \ {NULL}
            /\ Range(call.returned.customers) =
                 { r.customer : r \in rows } \ {NULL}
            /\ Ascending(call.returned.machine_names)
            /\ Ascending(call.returned.customers)
            /\ call.start_date > call.end_date =>
                 /\ call.returned.machine_names = << >>
                 /\ call.returned.customers = << >>

----------------------------------------------------------------------------
(* C9 *)

\* C9: when the secret is missing or the engine cannot be created, the pass
\* shows that error and nothing else, and is halted with no query issued.
ConnectionFailureHaltsBeforeQueries ==
    env \in { "missing_secret", "engine_error" } =>
        /\ pc = "stopped"
        /\ screen = { "error_" \o env }
        /\ queries = << >>
        /\ engine = NULL
        /\ engine_cache = NULL

\* a pass halted on the missing secret
MissingSecretReached ==
    /\ env = "missing_secret"
    /\ pc = "stopped"
    /\ "error_missing_secret" \in screen

----------------------------------------------------------------------------
(* C10 *)

\* C10: in a pass started by Reset Filters the production query runs with
\* [today - 30, today] and no machine or customer filter, whatever the
\* widgets hold, while the distinct-value query of that pass ran with the
\* range of the widgets; in any other pass both queries run with the range of
\* the widgets and the production query with the widgets' machine and customer.
ResetOverridesThisPassOnly ==
    Len(queries) = 2 =>
        LET widgets == DateRange(session.date_filter, session.selected_dates, today)
            distinct == queries[1]
            production == queries[2]
        IN  /\ distinct.start_date = widgets[1]
            /\ distinct.end_date = widgets[2]
            /\ IF session.reset
               THEN /\ production.start_date = today - 30
                    /\ production.end_date = today
                    /\ production.machine = NULL
                    /\ production.customer = NULL
                    /\ machine_filter = "All"
                    /\ customer_filter = "All"
               ELSE /\ production.start_date = widgets[1]
                    /\ production.end_date = widgets[2]
                    /\ machine_filter =
                         selectbox(session.machine, << "All" >> \o machine_options)
                    /\ customer_filter =
                         selectbox(session.customer, << "All" >> \o customer_options)

\* Reset Filters pressed while the widgets hold a custom range starting a
\* year back and a machine: the two queries of the pass differ in their range
ResetPassReached ==
    /\ Len(queries) = 2
    /\ session.reset
    /\ session.date_filter = "Custom Range"
    /\ session.machine = "M1"
    /\ "M1" \in Range(machine_options)
    /\ queries[1].start_date = today - 365
    /\ queries[2].start_date = today - 30
    /\ queries[2].machine = NULL

====
